---- MODULE Spec2Model ----
(***************************************************************************)
(* saleor/graphql/discount/types/promotions.py: the GraphQL types of the   *)
(* promotion domain (Promotion, PromotionRule, PromotionEvent and its      *)
(* seven variants, UnionPromotionEvent) and their resolvers.               *)
(*                                                                         *)
(* One behaviour is one request: a request context (the requester), the    *)
(* stored rows, and the field resolutions the execution engine starts in   *)
(* any order.  A resolver that delegates to a data loader returns a        *)
(* promise; the promise is settled later by the loader's dispatch and, for *)
(* created_by, by the .then callback that runs the ownership-or-permission *)
(* check.                                                                  *)
(***************************************************************************)
EXTENDS Integers, Sequences, FiniteSets, TLC

VARIABLES
    context,              \* info.context: [user, app] of the request
    users,                \* account.User rows, by pk
    apps,                 \* app.App rows, by pk
    channels,             \* channel.Channel rows, by pk
    promotions,           \* models.Promotion rows, by pk
    promotion_rules,      \* models.PromotionRule rows, by pk
    promotion_events,     \* models.PromotionEvent rows, by pk
    loader_data,          \* what the list loaders hold per key, in their order
    PROMOTION_EVENT_MAP,  \* the module-level dict, promotions.py:288-296
    pending,              \* the resolutions whose promise is not yet settled
    last                  \* the resolution that settled last

store == <<users, apps, channels, promotions, promotion_rules,
           promotion_events, loader_data, PROMOTION_EVENT_MAP>>

vars == <<context, users, apps, channels, promotions, promotion_rules,
          promotion_events, loader_data, PROMOTION_EVENT_MAP, pending, last>>

\* Promises that may be unsettled at the same time.
MaxPending == 1

(***************************************************************************)
(* Python values                                                           *)
(***************************************************************************)
None == [kind |-> "NoneType"]

\* A NULL foreign key.  `if root.user_id:` and `if root.app_id:` test
\* truthiness, which None and 0 both fail; primary keys start at 1.
NULL == 0

Truthy(id) == id # NULL

\* dict.get(key): the value, or None when the key is absent.
dict_get(d, key) == IF key \in DOMAIN d THEN d[key] ELSE None

\* What a resolver hands back to the engine: a value, an exception, or a
\* promise on a loader's load(key), with the callback chained by .then.
Returned(v) == [outcome |-> "returned", value |-> v]

Raised(exc) == [outcome |-> "raised", value |-> exc]

Promise(loader, key, callback) ==
    [outcome |-> "promise", loader |-> loader, key |-> key, then |-> callback]

(***************************************************************************)
(* Enumerations used by the file                                           *)
(***************************************************************************)
\* discount.PromotionEvents, imported as `events` (promotions.py:4)
PROMOTION_CREATED == "promotion_created"
PROMOTION_UPDATED == "promotion_updated"
PROMOTION_STARTED == "promotion_started"
PROMOTION_ENDED == "promotion_ended"
RULE_CREATED == "rule_created"
RULE_UPDATED == "rule_updated"
RULE_DELETED == "rule_deleted"

\* AccountPermissions.MANAGE_STAFF, AppPermission.MANAGE_APPS (promotions.py:7)
MANAGE_STAFF == "account.manage_staff"
MANAGE_APPS == "app.manage_apps"

\* AuthorizationFilters (promotions.py:6)
AUTHENTICATED_APP == "authorization_filters.authenticated_app"
AUTHENTICATED_STAFF_USER == "authorization_filters.authenticated_staff_user"

\* A graphene object type, by its class name.
Type(name) == [kind |-> "type", name |-> name]

\* The seven variant types registered by the file (promotions.py:186-285)
VariantTypes ==
    {Type("PromotionCreatedEvent"), Type("PromotionUpdatedEvent"),
     Type("PromotionStartedEvent"), Type("PromotionEndedEvent"),
     Type("PromotionRuleCreatedEvent"), Type("PromotionRuleUpdatedEvent"),
     Type("PromotionRuleDeletedEvent")}

\* The seven kinds PROMOTION_EVENT_MAP declares.
DeclaredKinds ==
    {PROMOTION_CREATED, PROMOTION_UPDATED, PROMOTION_STARTED, PROMOTION_ENDED,
     RULE_CREATED, RULE_UPDATED, RULE_DELETED}

Exception(name) == [kind |-> "exception", name |-> name]

PermissionDenied == Exception("PermissionDenied")

KeyError == Exception("KeyError")

(***************************************************************************)
(* The rows of one database and the contexts a request can carry           *)
(***************************************************************************)
InitUsers ==
    <<[kind |-> "User", pk |-> 1, is_staff |-> FALSE, permissions |-> {}],
      [kind |-> "User", pk |-> 2, is_staff |-> TRUE, permissions |-> {MANAGE_STAFF}],
      [kind |-> "User", pk |-> 3, is_staff |-> TRUE, permissions |-> {MANAGE_APPS}]>>

InitApps ==
    <<[kind |-> "App", pk |-> 1, permissions |-> {}],
      [kind |-> "App", pk |-> 2, permissions |-> {MANAGE_APPS}]>>

InitChannels ==
    <<[kind |-> "Channel", pk |-> 1, slug |-> "default"],
      [kind |-> "Channel", pk |-> 2, slug |-> "pln"]>>

InitPromotions ==
    <<[kind |-> "Promotion", pk |-> 1, name |-> "summer"],
      [kind |-> "Promotion", pk |-> 2, name |-> "winter"]>>

InitPromotionRules ==
    <<[kind |-> "PromotionRule", pk |-> 1, promotion_id |-> 1],
      [kind |-> "PromotionRule", pk |-> 2, promotion_id |-> 1]>>

NoParameters == [k \in {} |-> ""]

Event(pk, type, user_id, app_id, promotion_id, parameters) ==
    [kind |-> "PromotionEvent", pk |-> pk, type |-> type, user_id |-> user_id,
     app_id |-> app_id, promotion_id |-> promotion_id, parameters |-> parameters]

\* One event of every declared kind and one of a kind the map does not
\* declare; every combination of user_id and app_id set or NULL.
InitPromotionEvents ==
    <<Event(1, PROMOTION_CREATED, 1, NULL, 1, NoParameters),
      Event(2, PROMOTION_UPDATED, NULL, NULL, 1, NoParameters),
      Event(3, PROMOTION_STARTED, NULL, NULL, 1, NoParameters),
      Event(4, PROMOTION_ENDED, NULL, NULL, 2, NoParameters),
      Event(5, RULE_CREATED, 1, 2, 1, [rule_id |-> "UHJvbW90aW9uUnVsZTox"]),
      Event(6, RULE_UPDATED, NULL, NULL, 2, [rule_id |-> "UHJvbW90aW9uUnVsZToy"]),
      Event(7, RULE_DELETED, NULL, 1, 2, NoParameters),
      Event(8, "rule_archived", NULL, NULL, 1, NoParameters)>>

\* The lists the three list loaders hold per key, in the loaders' own order.
InitLoaderData ==
    [rules |-> <<(<<2, 1>>), (<<>>)>>,
     events |-> <<(<<3, 1, 2, 5, 8>>), (<<7, 4, 6>>)>>,
     channels |-> <<(<<2, 1>>), (<<1>>)>>]

InitEventMap ==
    (PROMOTION_CREATED :> Type("PromotionCreatedEvent"))
    @@ (PROMOTION_UPDATED :> Type("PromotionUpdatedEvent"))
    @@ (PROMOTION_STARTED :> Type("PromotionStartedEvent"))
    @@ (PROMOTION_ENDED :> Type("PromotionEndedEvent"))
    @@ (RULE_CREATED :> Type("PromotionRuleCreatedEvent"))
    @@ (RULE_UPDATED :> Type("PromotionRuleUpdatedEvent"))
    @@ (RULE_DELETED :> Type("PromotionRuleDeletedEvent"))

\* A request is anonymous, or authenticated as one user, or as one app.
Contexts ==
    {[user |-> None, app |-> None]}
    \cup {[user |-> InitUsers[i], app |-> None] : i \in DOMAIN InitUsers}
    \cup {[user |-> None, app |-> InitApps[i]] : i \in DOMAIN InitApps}

(***************************************************************************)
(* Collaborators imported by the file                                      *)
(***************************************************************************)
\* graphql.utils.get_user_or_app_from_context: context.app or context.user
get_user_or_app_from_context(ctx) ==
    IF ctx.app # None THEN ctx.app ELSE ctx.user

\* Model.__eq__: the same model class and the same primary key.
ModelEq(a, b) ==
    /\ a # None
    /\ b # None
    /\ a.kind = b.kind
    /\ a.pk = b.pk

has_perms(requester, perms) == perms \subseteq requester.permissions

\* account.utils.check_is_owner_or_has_one_of_perms(requester, owner, *perms):
\* returns nothing, or raises PermissionDenied.  The record says which
\* permissions were checked and whether the call raised.
check_is_owner_or_has_one_of_perms(requester, owner, perms) ==
    [perms |-> perms,
     raised |-> ~(ModelEq(requester, owner) \/ has_perms(requester, perms))]

\* A permission or authorization filter of a PermissionsField, on a context.
Satisfies(ctx, p) ==
    IF p = AUTHENTICATED_APP THEN ctx.app # None
    ELSE IF p = AUTHENTICATED_STAFF_USER
         THEN ctx.user # None /\ ctx.user.is_staff
    ELSE /\ get_user_or_app_from_context(ctx) # None
         /\ p \in get_user_or_app_from_context(ctx).permissions

\* core.fields.PermissionsField: the resolver runs only when the context
\* satisfies one of the field's permissions; otherwise PermissionDenied.
PermissionsField_granted(ctx, permissions) ==
    \E p \in permissions : Satisfies(ctx, p)

\* What loader.load(key) resolves to: a row or None for the by-id loaders,
\* the list held for the key (empty if none) for the list loaders.
Rows(table, pks) == [i \in DOMAIN pks |-> table[pks[i]]]

ListFor(lists, key) == IF key \in DOMAIN lists THEN lists[key] ELSE <<>>

LoaderValue(loader, key) ==
    CASE loader = "UserByUserIdLoader" -> dict_get(users, key)
      [] loader = "AppByIdLoader" -> dict_get(apps, key)
      [] loader = "PromotionByIdLoader" -> dict_get(promotions, key)
      [] loader = "PromotionRulesByPromotionIdLoader" ->
            Rows(promotion_rules, ListFor(loader_data.rules, key))
      [] loader = "PromotionEventsByPromotionIdLoader" ->
            Rows(promotion_events, ListFor(loader_data.events, key))
      [] loader = "ChannelsByPromotionRuleIdLoader" ->
            Rows(channels, ListFor(loader_data.channels, key))

(***************************************************************************)
(* Resolvers (promotions.py)                                               *)
(***************************************************************************)
\* Promotion.resolve_rules
resolve_rules(root) ==
    Promise("PromotionRulesByPromotionIdLoader", root.pk, "none")

\* Variant of resolve_events: the rules loader, copied from resolve_rules.
resolve_events_rules_loader(root) ==
    Promise("PromotionRulesByPromotionIdLoader", root.pk, "none")

\* Promotion.resolve_events
resolve_events(root) ==
    Promise("PromotionEventsByPromotionIdLoader", root.pk, "none")

\* PromotionRule.resolve_promotion
resolve_promotion(root) ==
    Promise("PromotionByIdLoader", root.promotion_id, "none")

\* PromotionRule.resolve_channels
resolve_channels(root) ==
    Promise("ChannelsByPromotionRuleIdLoader", root.pk, "none")

\* Variant of channels_permissions: the app filter left out.
channels_permissions_staff_only == {AUTHENTICATED_STAFF_USER}

\* The permissions of the PromotionRule.channels PermissionsField
channels_permissions == {AUTHENTICATED_APP, AUTHENTICATED_STAFF_USER}

\* The permissions of the PromotionEvent.created_by PermissionsField
created_by_permissions == {MANAGE_STAFF, MANAGE_APPS}

\* Variant of PromotionEvent.resolve_type: PROMOTION_EVENT_MAP[instance.type]
PromotionEvent_resolve_type_subscript(instance) ==
    IF instance.type \in DOMAIN PROMOTION_EVENT_MAP
    THEN Returned(PROMOTION_EVENT_MAP[instance.type])
    ELSE Raised(KeyError)

\* PromotionEvent.resolve_type
PromotionEvent_resolve_type(instance) ==
    Returned(dict_get(PROMOTION_EVENT_MAP, instance.type))

\* Variant of UnionPromotionEvent.resolve_type: a second copy of the map,
\* written before the rule-deleted variant was added.
UnionPromotionEvent_resolve_type_own_map(instance) ==
    Returned(dict_get(
        [k \in DOMAIN PROMOTION_EVENT_MAP \ {RULE_DELETED} |->
            PROMOTION_EVENT_MAP[k]],
        instance.type))

\* UnionPromotionEvent.resolve_type
UnionPromotionEvent_resolve_type(instance) ==
    Returned(dict_get(PROMOTION_EVENT_MAP, instance.type))

\* UnionPromotionEvent.Meta.types
UnionPromotionEvent_types ==
    {PROMOTION_EVENT_MAP[k] : k \in DOMAIN PROMOTION_EVENT_MAP}

\* Variant of resolve_rule_id: root.parameters.pop("rule_id", None)
resolve_rule_id_pop(root) ==
    [outcome |-> "returned",
     value |-> dict_get(root.parameters, "rule_id"),
     root |-> [root EXCEPT !.parameters =
                  [k \in DOMAIN root.parameters \ {"rule_id"} |->
                      root.parameters[k]]]]

\* PromotionRuleEvent.resolve_rule_id.  `root` is the event object as the
\* call leaves it: the resolver holds a reference to the stored row.
resolve_rule_id(root) ==
    [outcome |-> "returned",
     value |-> dict_get(root.parameters, "rule_id"),
     root |-> root]

\* A statement after a check runs only if the check did not raise.
AfterCheck(check, v) ==
    IF check.raised
    THEN [outcome |-> "raised", value |-> PermissionDenied, checks |-> <<check>>]
    ELSE [outcome |-> "returned", value |-> v, checks |-> <<check>>]

\* Variant of _resolve_user: the app permission, copied from _resolve_app.
_resolve_user_manage_apps(requester, user) ==
    AfterCheck(
        check_is_owner_or_has_one_of_perms(requester, user, {MANAGE_APPS}),
        user)

\* resolve_created_by._resolve_user, with the requester its closure holds
_resolve_user(requester, user) ==
    AfterCheck(
        check_is_owner_or_has_one_of_perms(requester, user, {MANAGE_STAFF}),
        user)

\* Variant of _resolve_app: the app returned with no check made.
_resolve_app_unchecked(requester, app) ==
    [outcome |-> "returned", value |-> app, checks |-> <<>>]

\* resolve_created_by._resolve_app
_resolve_app(requester, app) ==
    AfterCheck(
        check_is_owner_or_has_one_of_perms(requester, app, {MANAGE_APPS}),
        app)

\* Variant of resolve_created_by: no `if root.app_id:` before the app load.
resolve_created_by_unguarded_app(root, ctx) ==
    LET requester == get_user_or_app_from_context(ctx) IN
    IF requester = None THEN Returned(None)
    ELSE IF Truthy(root.user_id)
         THEN Promise("UserByUserIdLoader", root.user_id, "_resolve_user")
    ELSE Promise("AppByIdLoader", root.app_id, "_resolve_app")

\* Variant of resolve_created_by: the app branch tested first.
resolve_created_by_app_first(root, ctx) ==
    LET requester == get_user_or_app_from_context(ctx) IN
    IF requester = None THEN Returned(None)
    ELSE IF Truthy(root.app_id)
         THEN Promise("AppByIdLoader", root.app_id, "_resolve_app")
    ELSE IF Truthy(root.user_id)
         THEN Promise("UserByUserIdLoader", root.user_id, "_resolve_user")
    ELSE Returned(None)

\* Variant of resolve_created_by: no `if not requester: return None`.
resolve_created_by_no_requester_guard(root, ctx) ==
    IF Truthy(root.user_id)
    THEN Promise("UserByUserIdLoader", root.user_id, "_resolve_user")
    ELSE IF Truthy(root.app_id)
         THEN Promise("AppByIdLoader", root.app_id, "_resolve_app")
    ELSE Returned(None)

\* PromotionEvent.resolve_created_by
resolve_created_by(root, ctx) ==
    LET requester == get_user_or_app_from_context(ctx) IN
    IF requester = None THEN Returned(None)
    ELSE IF Truthy(root.user_id)
         THEN Promise("UserByUserIdLoader", root.user_id, "_resolve_user")
    ELSE IF Truthy(root.app_id)
         THEN Promise("AppByIdLoader", root.app_id, "_resolve_app")
    ELSE Returned(None)

\* promise.then(callback): the callback applied to the loaded value
Callback(name, requester, v) ==
    CASE name = "_resolve_user" -> _resolve_user(requester, v)
      [] name = "_resolve_app" -> _resolve_app(requester, v)

(***************************************************************************)
(* Field resolutions of one request                                        *)
(***************************************************************************)
NoResolution ==
    [field |-> "none", root |-> NULL, via |-> "none", loads |-> <<>>,
     then |-> "none", outcome |-> "none", value |-> None, checks |-> <<>>,
     log |-> <<>>]

IsPromise(r) == r.outcome = "promise"

\* The resolution of `field` on the row `root`, as the resolver's return `r`
\* leaves it: settled at once, or waiting on the load the resolver issued.
Resolution(field, root, via, prefix, r) ==
    [field |-> field, root |-> root, via |-> via,
     loads |-> IF IsPromise(r)
               THEN <<[loader |-> r.loader, key |-> r.key]>> ELSE <<>>,
     then |-> IF IsPromise(r) THEN r.then ELSE "none",
     outcome |-> IF IsPromise(r) THEN "load_issued" ELSE r.outcome,
     value |-> IF IsPromise(r) THEN None ELSE r.value,
     checks |-> <<>>,
     log |-> prefix \o <<"resolver_called">>
             \o (IF IsPromise(r) THEN <<"load_issued">> ELSE <<r.outcome>>)]

\* PermissionsField refused the field: the resolver never ran.
Denied(field, root) ==
    [field |-> field, root |-> root, via |-> "field", loads |-> <<>>,
     then |-> "none", outcome |-> "raised", value |-> PermissionDenied,
     checks |-> <<>>, log |-> <<"permission_denied">>]

Begin(rec) ==
    IF rec.outcome = "load_issued"
    THEN /\ Cardinality(pending) < MaxPending
         /\ pending' = pending \cup {rec}
         /\ last' = last
    ELSE /\ pending' = pending
         /\ last' = rec

CheckLog(checks) ==
    [i \in DOMAIN checks |->
        IF checks[i].raised THEN "check_raised" ELSE "check_passed"]

TypeOK ==
    /\ context \in Contexts
    /\ Cardinality(pending) <= MaxPending

Init ==
    /\ context \in Contexts
    /\ users = InitUsers
    /\ apps = InitApps
    /\ channels = InitChannels
    /\ promotions = InitPromotions
    /\ promotion_rules = InitPromotionRules
    /\ promotion_events = InitPromotionEvents
    /\ loader_data = InitLoaderData
    /\ PROMOTION_EVENT_MAP = InitEventMap
    /\ pending = {}
    /\ last = NoResolution

Call_resolve_rules ==
    \E p \in DOMAIN promotions :
        /\ Begin(Resolution("Promotion.rules", p, "resolver", <<>>,
                            resolve_rules(promotions[p])))
        /\ UNCHANGED <<context, store>>

Call_resolve_events ==
    \E p \in DOMAIN promotions :
        /\ Begin(Resolution("Promotion.events", p, "resolver", <<>>,
                            resolve_events(promotions[p])))
        /\ UNCHANGED <<context, store>>

Call_resolve_promotion ==
    \E r \in DOMAIN promotion_rules :
        /\ Begin(Resolution("PromotionRule.promotion", r, "resolver", <<>>,
                            resolve_promotion(promotion_rules[r])))
        /\ UNCHANGED <<context, store>>

Call_resolve_channels ==
    \E r \in DOMAIN promotion_rules :
        /\ Begin(Resolution("PromotionRule.channels", r, "resolver", <<>>,
                            resolve_channels(promotion_rules[r])))
        /\ UNCHANGED <<context, store>>

\* PromotionRule.channels as the engine resolves it: the PermissionsField
\* check, then the resolver.
Field_channels ==
    \E r \in DOMAIN promotion_rules :
        /\ Begin(IF PermissionsField_granted(context, channels_permissions)
                 THEN Resolution("PromotionRule.channels", r, "field",
                                 <<"permission_granted">>,
                                 resolve_channels(promotion_rules[r]))
                 ELSE Denied("PromotionRule.channels", r))
        /\ UNCHANGED <<context, store>>

Call_PromotionEvent_resolve_type ==
    \E e \in DOMAIN promotion_events :
        /\ Begin(Resolution("PromotionEvent.resolve_type", e, "resolver", <<>>,
                            PromotionEvent_resolve_type(promotion_events[e])))
        /\ UNCHANGED <<context, store>>

Call_UnionPromotionEvent_resolve_type ==
    \E e \in DOMAIN promotion_events :
        /\ Begin(Resolution("UnionPromotionEvent.resolve_type", e, "resolver",
                            <<>>,
                            UnionPromotionEvent_resolve_type(promotion_events[e])))
        /\ UNCHANGED <<context, store>>

Call_resolve_created_by ==
    \E e \in DOMAIN promotion_events :
        /\ Begin(Resolution("PromotionEvent.created_by", e, "resolver", <<>>,
                            resolve_created_by(promotion_events[e], context)))
        /\ UNCHANGED <<context, store>>

\* PromotionEvent.created_by as the engine resolves it.
Field_created_by ==
    \E e \in DOMAIN promotion_events :
        /\ Begin(IF PermissionsField_granted(context, created_by_permissions)
                 THEN Resolution("PromotionEvent.created_by", e, "field",
                                 <<"permission_granted">>,
                                 resolve_created_by(promotion_events[e], context))
                 ELSE Denied("PromotionEvent.created_by", e))
        /\ UNCHANGED <<context, store>>

Call_resolve_rule_id ==
    \E e \in DOMAIN promotion_events :
        LET r == resolve_rule_id(promotion_events[e]) IN
        /\ Begin(Resolution("PromotionRuleEvent.rule_id", e, "resolver", <<>>, r))
        /\ promotion_events' = [promotion_events EXCEPT ![e] = r.root]
        /\ UNCHANGED <<context, users, apps, channels, promotions,
                       promotion_rules, loader_data, PROMOTION_EVENT_MAP>>

\* The loader's batch completes and load(key) resolves.  A promise with no
\* callback chained is the resolver's result; otherwise the callback is next.
LoaderDispatch ==
    \E rec \in pending :
        LET v == LoaderValue(rec.loads[1].loader, rec.loads[1].key)
        IN
        /\ rec.outcome = "load_issued"
        /\ IF rec.then = "none"
           THEN /\ last' = [rec EXCEPT !.outcome = "returned", !.value = v,
                                !.log = @ \o <<"load_resolved", "returned">>]
                /\ pending' = pending \ {rec}
           ELSE /\ pending' = (pending \ {rec}) \cup
                                {[rec EXCEPT !.outcome = "load_resolved",
                                      !.value = v,
                                      !.log = @ \o <<"load_resolved">>]}
                /\ last' = last
        /\ UNCHANGED <<context, store>>

\* The callback chained by .then runs on the loaded value.
ThenCallback ==
    \E rec \in pending :
        LET c == Callback(rec.then, get_user_or_app_from_context(context),
                          rec.value)
        IN
        /\ rec.outcome = "load_resolved"
        /\ last' = [rec EXCEPT !.outcome = c.outcome, !.value = c.value,
                         !.checks = c.checks,
                         !.log = @ \o CheckLog(c.checks) \o <<c.outcome>>]
        /\ pending' = pending \ {rec}
        /\ UNCHANGED <<context, store>>

Next ==
    \/ Call_resolve_rules
    \/ Call_resolve_events
    \/ Call_resolve_promotion
    \/ Call_resolve_channels
    \/ Field_channels
    \/ Call_PromotionEvent_resolve_type
    \/ Call_UnionPromotionEvent_resolve_type
    \/ Call_resolve_created_by
    \/ Field_created_by
    \/ Call_resolve_rule_id
    \/ LoaderDispatch
    \/ ThenCallback

Spec == Init /\ [][Next]_vars

(***************************************************************************)
(* Properties                                                              *)
(***************************************************************************)
requester == get_user_or_app_from_context(context)

Has(log, step) == \E i \in DOMAIN log : log[i] = step

\* The resolver of the resolution ran (PermissionsField did not refuse it).
ResolverRan(rec) == Has(rec.log, "resolver_called")

Settled(rec) == rec.outcome \in {"returned", "raised"}

\* The steps of a resolution from the resolver's call on.
FromCall(log) ==
    IF log # <<>> /\ log[1] = "permission_granted" THEN Tail(log) ELSE log

IsCreatedBy(rec) == rec.field = "PromotionEvent.created_by" /\ ResolverRan(rec)

IsResolveType(rec) ==
    rec.field \in {"PromotionEvent.resolve_type",
                   "UnionPromotionEvent.resolve_type"}

\* C1: for an event of one of the seven declared kinds, each of
\* PromotionEvent.resolve_type and UnionPromotionEvent.resolve_type returns
\* one of the seven variant types, the one the map holds for the kind, and
\* it is the type the other resolver returns for the same instance.
C1_DeclaredKindResolvesToOneVariant ==
    (IsResolveType(last)
        /\ promotion_events[last.root].type \in DeclaredKinds)
    => /\ last.outcome = "returned"
       /\ last.value \in VariantTypes
       /\ last.value \in UnionPromotionEvent_types
       /\ last.value = InitEventMap[promotion_events[last.root].type]
       /\ PromotionEvent_resolve_type(promotion_events[last.root])
            = Returned(last.value)
       /\ UnionPromotionEvent_resolve_type(promotion_events[last.root])
            = Returned(last.value)

C1_Witness ==
    /\ last.field = "UnionPromotionEvent.resolve_type"
    /\ promotion_events[last.root].type = RULE_DELETED
    /\ last.value = Type("PromotionRuleDeletedEvent")

\* C2: for an event whose kind is not one of the seven, both resolve_type
\* resolvers return None and neither raises.
C2_UnknownKindResolvesToNone ==
    (IsResolveType(last)
        /\ promotion_events[last.root].type \notin DeclaredKinds)
    => /\ last.outcome = "returned"
       /\ last.value = None

C2_Witness ==
    /\ last.field = "PromotionEvent.resolve_type"
    /\ promotion_events[last.root].type = "rule_archived"
    /\ last.outcome = "returned"
    /\ last.value = None

UserOnly(ev) == Truthy(ev.user_id) /\ ~Truthy(ev.app_id)

\* The requester is the user u, or holds MANAGE_STAFF.
IsUserOrStaffManager(req, u) ==
    \/ (req.kind = "User" /\ req.pk = u.pk)
    \/ MANAGE_STAFF \in req.permissions

\* C3: for an event with user_id = U and app_id NULL, a settled
\* resolve_created_by returns the loaded user U exactly when the requester is
\* U or holds MANAGE_STAFF; for every other requester it raises
\* PermissionDenied, and with no requester at all it delivers nothing (None).
C3_UserDeliveredIffOwnerOrManageStaff ==
    (IsCreatedBy(last) /\ Settled(last)
        /\ UserOnly(promotion_events[last.root]))
    => LET U == users[promotion_events[last.root].user_id] IN
       IF requester = None
       THEN last.outcome = "returned" /\ last.value = None
       ELSE IF IsUserOrStaffManager(requester, U)
            THEN last.outcome = "returned" /\ last.value = U
       ELSE last.outcome = "raised" /\ last.value = PermissionDenied

C3_Witness ==
    /\ IsCreatedBy(last)
    /\ UserOnly(promotion_events[last.root])
    /\ context.user = users[2]
    /\ last.outcome = "returned"
    /\ last.value = users[1]

NoPrincipal(ev) == ~Truthy(ev.user_id) /\ ~Truthy(ev.app_id)

\* C4: for an event with user_id NULL and app_id NULL, resolve_created_by
\* returns None at once for every requester: it issues no load, waits on
\* nothing and raises nothing.
C4_NoPrincipalResolvesToNone ==
    /\ \A rec \in pending :
          IsCreatedBy(rec) => ~NoPrincipal(promotion_events[rec.root])
    /\ (IsCreatedBy(last) /\ NoPrincipal(promotion_events[last.root]))
       => /\ last.outcome = "returned"
          /\ last.value = None
          /\ last.loads = <<>>

C4_Witness ==
    /\ IsCreatedBy(last)
    /\ NoPrincipal(promotion_events[last.root])
    /\ context.user = users[1]
    /\ last.outcome = "returned"
    /\ last.value = None

Unauthenticated(ctx) == ctx.user = None /\ ctx.app = None

StaffUserOrApp(ctx) ==
    \/ ctx.app # None
    \/ (ctx.user # None /\ ctx.user.is_staff)

IsChannelsField(rec) ==
    rec.field = "PromotionRule.channels" /\ rec.via = "field"

\* C5: the channels field of a rule, asked by an unauthenticated caller, is
\* refused with PermissionDenied before any load is issued; asked by a staff
\* user or an app it resolves to the whole list the loader holds for the
\* rule's id.
C5_ChannelsGatedToStaffUserOrApp ==
    /\ Unauthenticated(context)
       => /\ \A rec \in pending : ~IsChannelsField(rec)
          /\ IsChannelsField(last)
             => /\ last.outcome = "raised"
                /\ last.value = PermissionDenied
                /\ last.loads = <<>>
    /\ (StaffUserOrApp(context) /\ IsChannelsField(last))
       => /\ last.outcome = "returned"
          /\ last.value = Rows(channels, loader_data.channels[last.root])

C5_Witness ==
    /\ IsChannelsField(last)
    /\ context.app = apps[1]
    /\ last.outcome = "returned"
    /\ last.value = <<channels[2], channels[1]>>

Delivered(rec) == rec.outcome = "returned" /\ rec.value # None

\* The permission the check must be made against for a loaded principal.
RequiredPerms(principal) ==
    IF principal.kind = "User" THEN {MANAGE_STAFF} ELSE {MANAGE_APPS}

\* C6: a resolve_created_by that delivers a principal went through
\* load issued, load resolved, check passed, value returned, in that order,
\* and the one check it made was against MANAGE_STAFF for a user and
\* against MANAGE_APPS for an app; an unsettled resolution has made no check
\* and returned nothing; a resolution whose check raised returned nothing.
C6_PrincipalReturnedOnlyAfterCheck ==
    /\ \A rec \in pending :
          IsCreatedBy(rec)
          => /\ rec.checks = <<>>
             /\ FromCall(rec.log) \in
                  {<<"resolver_called", "load_issued">>,
                   <<"resolver_called", "load_issued", "load_resolved">>}
    /\ (IsCreatedBy(last) /\ Delivered(last))
       => /\ FromCall(last.log) =
               <<"resolver_called", "load_issued", "load_resolved",
                 "check_passed", "returned">>
          /\ last.checks =
               <<[perms |-> RequiredPerms(last.value), raised |-> FALSE]>>
          /\ \/ (requester.kind = last.value.kind
                    /\ requester.pk = last.value.pk)
             \/ RequiredPerms(last.value) \subseteq requester.permissions
    /\ (IsCreatedBy(last) /\ Has(last.log, "check_raised"))
       => /\ last.outcome = "raised"
          /\ last.value = PermissionDenied
          /\ ~Has(last.log, "returned")

C6_Witness ==
    /\ IsCreatedBy(last)
    /\ Delivered(last)
    /\ last.value = apps[1]
    /\ context.user = users[3]
    /\ FromCall(last.log) =
         <<"resolver_called", "load_issued", "load_resolved",
           "check_passed", "returned">>

\* C7: resolve_rules of a promotion yields the rule rows the rules loader
\* holds for the promotion's id, and resolve_events the event rows the
\* events loader holds for it: the same number, the same rows, the same
\* order.
C7_RulesAndEventsAsLoaded ==
    /\ (last.field = "Promotion.rules" /\ Settled(last))
       => /\ last.outcome = "returned"
          /\ Len(last.value) = Len(loader_data.rules[last.root])
          /\ \A i \in DOMAIN last.value :
                last.value[i] = promotion_rules[loader_data.rules[last.root][i]]
    /\ (last.field = "Promotion.events" /\ Settled(last))
       => /\ last.outcome = "returned"
          /\ Len(last.value) = Len(loader_data.events[last.root])
          /\ \A i \in DOMAIN last.value :
                last.value[i] = promotion_events[loader_data.events[last.root][i]]

C7_Witness ==
    /\ last.field = "Promotion.events"
    /\ last.root = 1
    /\ last.outcome = "returned"
    /\ Len(last.value) = 5
    /\ last.value[1].pk = 3
    /\ last.value[5].pk = 8

BothSet(ev) == Truthy(ev.user_id) /\ Truthy(ev.app_id)

\* C9: for an event with both user_id and app_id set, resolve_created_by
\* issues the user load alone and chains _resolve_user: the one check made
\* is against MANAGE_STAFF, no app is loaded or returned, and no resolution
\* of created_by issues more than one load.
C9_UserBranchTakesPrecedence ==
    \A rec \in pending \cup {last} :
        IsCreatedBy(rec)
        => /\ Len(rec.loads) <= 1
           /\ (BothSet(promotion_events[rec.root]) /\ requester # None)
              => /\ rec.loads =
                      <<[loader |-> "UserByUserIdLoader",
                         key |-> promotion_events[rec.root].user_id]>>
                 /\ rec.then = "_resolve_user"
                 /\ \A i \in DOMAIN rec.checks :
                       rec.checks[i].perms = {MANAGE_STAFF}
                 /\ Delivered(rec)
                    => rec.value = users[promotion_events[rec.root].user_id]

C9_Witness ==
    /\ IsCreatedBy(last)
    /\ BothSet(promotion_events[last.root])
    /\ context.user = users[2]
    /\ last.outcome = "returned"
    /\ last.value = users[1]
    /\ Len(last.checks) = 1

\* C10: when the context carries no user and no app, resolve_created_by
\* returns None for every event, also one with user_id or app_id set: it
\* issues no load, makes no check and raises nothing.
C10_NoRequesterReturnsNone ==
    requester = None
    => /\ \A rec \in pending : ~IsCreatedBy(rec)
       /\ IsCreatedBy(last)
          => /\ last.outcome = "returned"
             /\ last.value = None
             /\ last.loads = <<>>
             /\ last.checks = <<>>
             /\ last.log = <<"resolver_called", "returned">>

C10_Witness ==
    /\ Unauthenticated(context)
    /\ IsCreatedBy(last)
    /\ Truthy(promotion_events[last.root].user_id)
    /\ last.outcome = "returned"
    /\ last.value = None

====
